---------------------------- MODULE Spec2Model ----------------------------
(***************************************************************************)
(* A model of the phase-vocoder time-stretch engine of the audio worklet   *)
(* (src/unnamed/part_000): the radix-2 FFT kernel, the cyclic shift, the   *)
(* polar/rectangular conversions, analysis, the two phase trackers,        *)
(* synthesis and the stretch function returned by phaseVocoder().          *)
(*                                                                         *)
(* Numbers.  A JavaScript number is modelled in fixed point: the record    *)
(* [k |-> "num", v |-> n] stands for the double n / Scale.  NaN and        *)
(* undefined are values of their own ([k |-> "nan"], [k |-> "undef"]) and  *)
(* propagate through arithmetic as they do in JavaScript.  Products and    *)
(* quotients round toward zero on the grid.  Math.PI is the grid value     *)
(* 50/16; cos, sin and atan2 are evaluated to the nearest quarter turn,    *)
(* where their values (0, 1, -1) are exact on the grid.  An infinite       *)
(* result (x / 0) is not represented and is folded into NaN.               *)
(*                                                                         *)
(* Arrays.  A typed array is a sequence; JavaScript index i is position    *)
(* i + 1.  A read outside the array yields undefined and a write outside   *)
(* it is ignored, as for Float64Array.                                     *)
(***************************************************************************)
EXTENDS Integers, Sequences, FiniteSets, TLC

(***************************************************************************)
(* Bounds of the model.                                                    *)
(***************************************************************************)
MaxLen == 6        \* longest input signal
MaxHop == 2        \* largest analysis hop
MaxFactor == 2     \* largest stretch factor
MaxSize == 4       \* largest transform size requested of fft(size)
MaxTableSize == 8  \* largest size whose tables are built without a transform being run
MaxShifts == 3     \* longest sequence of shifts applied to one buffer
MaxDelta == 160    \* largest frequency deviation wrapped, in grid steps (10 rad/s)

\* Transform sizes: the powers of two whose twiddle factors cos(-PI/h),
\* sin(-PI/h), h = 1, 2, lie on the quarter-turn grid.
Sizes == {1, 2, 4}

(***************************************************************************)
(* Numbers                                                                 *)
(***************************************************************************)
Scale == 16

Num(n) == [k |-> "num", v |-> n]
\* the double with the integer value n
Fix(n) == Num(n * Scale)
NaN == [k |-> "nan", v |-> 0]
Undefined == [k |-> "undef", v |-> 0]
IsNum(x) == x.k = "num"
\* an array cell of a Float64Array holds a number or NaN: undefined is stored as NaN
Stored(x) == IF IsNum(x) THEN x ELSE NaN

Abs(n) == IF n < 0 THEN -n ELSE n
\* integer quotient and remainder rounding toward zero (JavaScript's % keeps
\* the sign of the dividend)
TDiv(a, b) == IF (a >= 0) = (b > 0) THEN Abs(a) \div Abs(b) ELSE -(Abs(a) \div Abs(b))
TRem(a, b) == a - b * TDiv(a, b)

Add(a, b) == IF IsNum(a) /\ IsNum(b) THEN Num(a.v + b.v) ELSE NaN
Sub(a, b) == IF IsNum(a) /\ IsNum(b) THEN Num(a.v - b.v) ELSE NaN
Mul(a, b) == IF IsNum(a) /\ IsNum(b) THEN Num(TDiv(a.v * b.v, Scale)) ELSE NaN
Div(a, b) == IF IsNum(a) /\ IsNum(b) /\ b.v # 0 THEN Num(TDiv(a.v * Scale, b.v)) ELSE NaN
Mod(a, b) == IF IsNum(a) /\ IsNum(b) /\ b.v # 0 THEN Num(TRem(a.v, b.v)) ELSE NaN
Neg(a) == IF IsNum(a) THEN Num(-a.v) ELSE NaN

PI == Num(50)
PI2 == Mul(Fix(2), PI)
HalfPI == PI.v \div 2

\* the quarter turn (0..3) nearest to the angle x
Quadrant(x) == (((2 * (x.v % PI2.v)) + HalfPI) \div (2 * HalfPI)) % 4
cos(x) == IF IsNum(x) THEN Fix(<<1, 0, -1, 0>>[Quadrant(x) + 1]) ELSE NaN
sin(x) == IF IsNum(x) THEN Fix(<<0, 1, 0, -1>>[Quadrant(x) + 1]) ELSE NaN
\* the angle of the axis nearest to (re, im); ties go to the real axis
atan2(im, re) ==
  IF ~(IsNum(im) /\ IsNum(re)) THEN NaN
  ELSE IF Abs(re.v) >= Abs(im.v)
       THEN (IF re.v >= 0 THEN Fix(0) ELSE IF im.v >= 0 THEN PI ELSE Neg(PI))
       ELSE (IF im.v > 0 THEN Num(HalfPI) ELSE Num(-HalfPI))
\* floor of the square root on the grid
sqrt(x) ==
  IF ~IsNum(x) \/ x.v < 0 THEN NaN
  ELSE LET n == x.v * Scale
       IN Num(CHOOSE r \in 0..n : r * r <= n /\ (r + 1) * (r + 1) > n)

(***************************************************************************)
(* Arrays                                                                  *)
(***************************************************************************)
At(a, i) == IF i >= 0 /\ i < Len(a) THEN a[i + 1] ELSE Undefined
Put(a, i, x) == IF i >= 0 /\ i < Len(a) THEN [a EXCEPT ![i + 1] = Stored(x)] ELSE a
\* TypedArray.prototype.subarray(from, to) as the index range it covers
SubRange(a, from, to) ==
  LET lo == IF from > Len(a) THEN Len(a) ELSE from
      hi == IF to > Len(a) THEN Len(a) ELSE to
  IN [lo |-> lo, hi |-> IF hi < lo THEN lo ELSE hi]

zeros(size) == [i \in 1..size |-> Fix(0)]


\* fill(N, fn) with a named window function: "rect" is analysis's default
\* () => 1, "hanning" is phaseVocoder's default hanning()
hanning(n, N) ==
  LET z == Div(Mul(PI2, Fix(n)), Fix(N - 1))
  IN Mul(Num(Scale \div 2), Sub(Fix(1), cos(z)))
WindowFn(fn, n, N) == IF fn = "hanning" THEN hanning(n, N) ELSE Fix(1)
fill(N, fn) == [i \in 1..N |-> Stored(WindowFn(fn, i - 1, N))]

\* add(N, a, b, out) and mult(N, a, b, out) with the output array given
add(N, a, b, out) ==
  [i \in 1..Len(out) |-> IF i <= N THEN Stored(Add(At(a, i - 1), At(b, i - 1))) ELSE out[i]]
mult(N, a, b, out) ==
  [i \in 1..Len(out) |-> IF i <= N THEN Stored(Mul(At(a, i - 1), At(b, i - 1))) ELSE out[i]]

(***************************************************************************)
(* Cyclic shift                                                            *)
(***************************************************************************)
RECURSIVE reverse(_, _, _)
reverse(src, from, to) ==
  IF from < to - 1
  THEN reverse([src EXCEPT ![from + 1] = src[to], ![to] = src[from + 1]], from + 1, to - 1)
  ELSE src
rotate(src, n) == reverse(reverse(reverse(src, 0, Len(src)), 0, n), n, Len(src))
\* a shift by floor((N + 1) / 2)
fftshiftCeil(src) == rotate(src, (Len(src) + 1) \div 2)
fftshift(src) == rotate(src, Len(src) \div 2)
\* an inverse shift by floor(N / 2)
ifftshiftFloor(src) == rotate(src, Len(src) \div 2)
ifftshift(src) == rotate(src, (Len(src) + 1) \div 2)

(***************************************************************************)
(* FFT engine                                                              *)
(***************************************************************************)
RECURSIVE BitAnd(_, _)
BitAnd(a, b) ==
  IF a = 0 \/ b = 0 THEN 0
  ELSE (a % 2) * (b % 2) + 2 * BitAnd(a \div 2, b \div 2)
\* the test without its second conjunct (!!v)
isPow2OrZero(v) == BitAnd(v, v - 1) = 0
isPow2(v) == BitAnd(v, v - 1) = 0 /\ v # 0

\* a table that leaves every index where it is
ReverseTableIdentity(rev, limit, bit, size) == [i \in 1..size |-> i - 1]
\* lines 635-644: the bit-reversal table, one doubling of limit per pass
RECURSIVE ReverseTable(_, _, _, _)
ReverseTable(rev, limit, bit, size) ==
  IF limit < size
  THEN ReverseTable([i \in 1..size |->
                       IF i - 1 >= limit /\ i - 1 < 2 * limit THEN rev[i - limit] + bit
                       ELSE rev[i]],
                    2 * limit, bit \div 2, size)
  ELSE rev
\* tables(size); threw is the construction error of a size that is no power of two
tables(size) ==
  IF ~isPow2(size)
  THEN [threw |-> "Size must be a power of 2", size |-> size,
        reverseTable |-> <<>>, sinTable |-> <<>>, cosTable |-> <<>>]
  ELSE [threw |-> "none", size |-> size,
        reverseTable |-> ReverseTable([i \in 1..size |-> 0], 1, size \div 2, size),
        sinTable |-> [i \in 1..size |-> Stored(sin(Div(Neg(PI), Fix(i - 1))))],
        cosTable |-> [i \in 1..size |-> Stored(cos(Div(Neg(PI), Fix(i - 1))))]]

\* one butterfly (lines 599-606) on the pair (i, off) with the rotated value (tr, ti)
Butterfly(st, i, off, tr, ti) ==
  [real |-> Put(Put(st.real, off, Sub(At(st.real, i), tr)), i, Add(At(st.real, i), tr)),
   imag |-> Put(Put(st.imag, off, Sub(At(st.imag, i), ti)), i, Add(At(st.imag, i), ti))]
\* the inner while loop of process: the butterflies of one fftStep
RECURSIVE Butterflies(_, _, _, _, _, _)
Butterflies(st, i, halfSize, size, cr, ci) ==
  IF i < size
  THEN Butterflies(Butterfly(st, i, i + halfSize,
                             Sub(Mul(cr, At(st.real, i + halfSize)), Mul(ci, At(st.imag, i + halfSize))),
                             Add(Mul(cr, At(st.imag, i + halfSize)), Mul(ci, At(st.real, i + halfSize)))),
                   i + 2 * halfSize, halfSize, size, cr, ci)
  ELSE st
\* the for loop over fftStep, rotating the current phase shift by the stage's step
RECURSIVE FftSteps(_, _, _, _, _, _, _, _)
FftSteps(st, fftStep, halfSize, size, cr, ci, sr, si) ==
  IF fftStep < halfSize
  THEN FftSteps(Butterflies(st, fftStep, halfSize, size, cr, ci), fftStep + 1, halfSize, size,
                Sub(Mul(cr, sr), Mul(ci, si)), Add(Mul(cr, si), Mul(ci, sr)), sr, si)
  ELSE st
\* the outer while loop over halfSize = 1, 2, 4, ...
RECURSIVE FftStages(_, _, _)
FftStages(st, halfSize, tb) ==
  IF halfSize < tb.size
  THEN FftStages(FftSteps(st, 0, halfSize, tb.size, Fix(1), Fix(0),
                          At(tb.cosTable, halfSize), At(tb.sinTable, halfSize)),
                 2 * halfSize, tb)
  ELSE st

NoBuffer == [real |-> <<>>, imag |-> <<>>, given |-> FALSE]
Complex(re, im) == [real |-> re, imag |-> im, given |-> TRUE]
\* a real-only input left without an imaginary part
RealInputNoImag(x, size) == Complex(x, <<>>)
\* line 571: a real-only input gets an all-zero imaginary part
RealInput(x, size) == Complex(x, zeros(size))
\* lines 581-584: the input in bit-reversed order, the imaginary part times dir
LoadInput(dir, tb, rs, is, out) ==
  [real |-> [i \in 1..Len(out.real) |->
               IF i <= tb.size THEN Stored(At(rs, tb.reverseTable[i])) ELSE out.real[i]],
   imag |-> [i \in 1..Len(out.imag) |->
               IF i <= tb.size THEN Stored(Mul(Fix(dir), At(is, tb.reverseTable[i])))
               ELSE out.imag[i]]]
\* lines 619-625: the inverse transform divides by size
\* an inverse transform that does not divide
NormalizeNone(dir, size, st) == [threw |-> "none", real |-> st.real, imag |-> st.imag]
Normalize(dir, size, st) ==
  IF dir = -1
  THEN [threw |-> "none",
        real |-> [i \in 1..Len(st.real) |->
                    IF i <= size THEN Stored(Div(st.real[i], Fix(size))) ELSE st.real[i]],
        imag |-> [i \in 1..Len(st.imag) |->
                    IF i <= size THEN Stored(Div(st.imag[i], Fix(size))) ELSE st.imag[i]]]
  ELSE [threw |-> "none", real |-> st.real, imag |-> st.imag]
\* a typed array passed as the input: it has no property real
RealOnly(x) == [real |-> x, imag |-> <<>>, given |-> FALSE]
\* line 571: if (!input.real) input = { real: input, imag: new Float32Array(size) }
InputOf(input, size) == IF input.given THEN input ELSE RealInput(input.real, size)
\* lines 572-627 on the complex input
ProcessChecked(dir, tb, input, output) ==
  IF Len(input.real) # tb.size
  THEN [threw |-> "Real buffer length", real |-> output.real, imag |-> output.imag]
  ELSE IF Len(input.imag) # tb.size
  THEN [threw |-> "Imag buffer length", real |-> output.real, imag |-> output.imag]
  ELSE Normalize(dir, tb.size,
                 FftStages(LoadInput(dir, tb, input.real, input.imag,
                                     IF output.given THEN output
                                     ELSE Complex(zeros(tb.size), zeros(tb.size))),
                           1, tb))
\* process(dir, tables, input, output) -> [threw, real, imag]
process(dir, tb, input, output) == ProcessChecked(dir, tb, InputOf(input, tb.size), output)
\* the tables after a call of process, which assigns to real[..] and imag[..]
\* of the output only (lines 582-583, 603-606, 622-623)
processTablesScratch(tb) == [tb EXCEPT !.reverseTable = [i \in 1..Len(@) |-> 0]]
processTables(tb) == tb
\* fft(size): the transform pair over the cached tables
forward(tb, input, output) == process(1, tb, input, output)
inverse(tb, input, output) == process(-1, tb, input, output)

(***************************************************************************)
(* Spectrum: polar and rectangular form                                    *)
(***************************************************************************)
\* polar(result) without an output: a new frame { magnitudes, phases }
polar(result) ==
  LET len == Len(result.real)
  IN [magnitudes |-> [i \in 1..len |->
                        Stored(sqrt(Add(Mul(result.real[i], result.real[i]),
                                        Mul(At(result.imag, i - 1), At(result.imag, i - 1)))))],
      phases |-> [i \in 1..len |-> Stored(atan2(At(result.imag, i - 1), result.real[i]))]]
\* rectangular(spectrum, complex) into the given buffers
rectangular(spectrum, complex) ==
  LET size == Len(spectrum.magnitudes)
      limit == IF size < Len(complex.real) THEN size ELSE Len(complex.real)
  IN [real |-> [i \in 1..Len(complex.real) |->
                  IF i <= limit
                  THEN Stored(Mul(spectrum.magnitudes[i], cos(At(spectrum.phases, i - 1))))
                  ELSE complex.real[i]],
      imag |-> [i \in 1..Len(complex.imag) |->
                  IF i <= limit
                  THEN Stored(Mul(spectrum.magnitudes[i], sin(At(spectrum.phases, i - 1))))
                  ELSE complex.imag[i]],
      given |-> TRUE]

bandWidth(size, sampleRate) == Div(Mul(Div(Fix(2), Fix(size)), sampleRate), Fix(2))
bandFrequency(index, size, sampleRate) ==
  LET width == bandWidth(size, sampleRate)
  IN Add(Mul(width, Fix(index)), Div(width, Fix(2)))

(***************************************************************************)
(* Options objects.  A destructured parameter reads a property of the      *)
(* argument: of an object its field, of a number (which has no such        *)
(* property) undefined.                                                    *)
(***************************************************************************)
ObjectArg(fields) == [isObject |-> TRUE, fields |-> fields]
NumberArg(n) == [isObject |-> FALSE, fields |-> [size |-> Fix(n)]]
Prop(arg, name) ==
  IF arg.isObject /\ name \in DOMAIN arg.fields THEN arg.fields[name] ELSE Undefined
\* the number of iterations of for (i = 0; i < bound; i++)
Iterations(bound) == IF IsNum(bound) /\ bound.v > 0 THEN (bound.v + Scale - 1) \div Scale ELSE 0

(***************************************************************************)
(* Analysis                                                                *)
(***************************************************************************)
\* frame.set(signal.subarray(i * hop, i * hop + size)) into the scratch frame
Slice(signal, from, size) == [j \in 1..size |-> At(signal, from + j - 1)]
AnalysisFrame(signal, i, size, hop, window, ft) ==
  LET frame == Slice(signal, i * hop, size)
      windowed == mult(size, window, frame, frame)
      centered == fftshift(windowed)
      fdFrame == forward(ft, RealInput(centered, ft.size), Complex(zeros(size), zeros(size)))
  IN polar(fdFrame)
\* a frame count that includes the frame starting at L - size
NumFramesInclusive(length, size, hop) == (length - size) \div hop + 1
\* line 412: Math.floor((signal.length - size) / hop)
NumFrames(length, size, hop) == (length - size) \div hop
\* analysis(signal, { size, hop, windowFn, ft }) -> [threw, frames]; new Array(n)
\* throws a RangeError for a negative n
analysis(signal, size, hop, windowFn, ft) ==
  IF NumFrames(Len(signal), size, hop) < 0
  THEN [threw |-> "RangeError: Invalid array length", frames |-> <<>>]
  ELSE [threw |-> "none",
        frames |-> [n \in 1..NumFrames(Len(signal), size, hop) |->
                      AnalysisFrame(signal, n - 1, size, hop, fill(size, windowFn), ft)]]

(***************************************************************************)
(* Phase trackers                                                          *)
(***************************************************************************)
\* line 300: the wrap of the frequency deviation; % keeps the sign of the dividend
WrappedDeltaFreq(deltaFreq) == Sub(Mod(Add(deltaFreq, PI), PI2), PI)
\* the inner loop of recalcPhases over the bins of one frame
RECURSIVE RecalcBins(_, _, _, _, _, _, _)
RecalcBins(prev, phases, bin, nbins, original, modified, omega) ==
  IF bin < nbins
  THEN LET deltaPhi == Sub(At(phases, bin), At(prev, bin))
           freq == At(omega, bin)
           deltaFreq == Sub(Div(deltaPhi, original), freq)
           wrappedDeltaFreq == WrappedDeltaFreq(deltaFreq)
           realFreq == Add(freq, wrappedDeltaFreq)
       IN RecalcBins(prev, Put(phases, bin, Add(At(prev, bin), Mul(modified, realFreq))),
                     bin + 1, nbins, original, modified, omega)
  ELSE phases
\* a tracker that takes every previous phase as analysis left it
RecalcFramesRaw(frames, i, nbins, original, modified, omega) ==
  [n \in 1..Len(frames) |->
     IF n > i
     THEN [frames[n] EXCEPT !.phases = RecalcBins(frames[n - 1].phases, frames[n].phases, 0, nbins,
                                                  original, modified, omega)]
     ELSE frames[n]]
\* the outer loop of recalcPhases (lines 288-306): frame i is recomputed in
\* place from frames[i - 1] as the loop left it
RECURSIVE RecalcFrames(_, _, _, _, _, _)
RecalcFrames(frames, i, nbins, original, modified, omega) ==
  IF i < Len(frames)
  THEN RecalcFrames([frames EXCEPT ![i + 1].phases =
                       RecalcBins(frames[i].phases, frames[i + 1].phases, 0, nbins,
                                  original, modified, omega)],
                    i + 1, nbins, original, modified, omega)
  ELSE frames
\* lines 284 and 285: the hop times
OriginalHopTime(opts) == Div(Prop(opts, "hop"), Prop(opts, "sampleRate"))
ModifiedHopTime(opts) ==
  Div(Mul(Prop(opts, "hop"), Prop(opts, "factor")), Prop(opts, "sampleRate"))
\* line 288: the first frame the tracker recomputes
FirstTracked == 2
\* a tracker whose loop starts at frame 1
recalcPhasesFromFrameOne(frames, opts, omega) ==
  RecalcFrames(frames, FirstTracked - 1, Iterations(Prop(opts, "size")),
               OriginalHopTime(opts), ModifiedHopTime(opts), omega)
\* recalcPhases(frames, { size, hop, factor, sampleRate }, omega)
recalcPhases(frames, opts, omega) ==
  RecalcFrames(frames, FirstTracked, Iterations(Prop(opts, "size")),
               OriginalHopTime(opts), ModifiedHopTime(opts), omega)

\* randomPhases(frames, { size }); rnd is the sequence of values Math.random()
\* returns, read cyclically
RandomPhases(phases, n, nbins, rnd) ==
  [i \in 1..Len(phases) |->
     IF i <= nbins THEN Stored(Mul(PI2, rnd[((n * nbins + i - 1) % Len(rnd)) + 1]))
     ELSE phases[i]]
\* a randomization that writes the magnitudes as well
randomPhasesAndMagnitudes(frames, opts, rnd) ==
  [n \in 1..Len(frames) |->
     [magnitudes |-> RandomPhases(frames[n].magnitudes, n - 1, Iterations(Prop(opts, "size")), rnd),
      phases |-> RandomPhases(frames[n].phases, n - 1, Iterations(Prop(opts, "size")), rnd)]]
randomPhases(frames, opts, rnd) ==
  LET nbins == Iterations(Prop(opts, "size"))
  IN [n \in 1..Len(frames) |->
        [frames[n] EXCEPT !.phases = RandomPhases(frames[n].phases, n - 1, nbins, rnd)]]

\* the bins the two trackers assign, as <<frame index, bin>> (loop bounds of
\* lines 288-292 and 400-402)
recalcPhasesWrites(frames, opts) ==
  {<<i, bin>> \in (FirstTracked..(Len(frames) - 1)) \X (0..(Iterations(Prop(opts, "size")) - 1)) :
     bin < Len(frames[i + 1].phases)}
randomPhasesWrites(frames, opts) ==
  {<<n, i>> \in (0..(Len(frames) - 1)) \X (0..(Iterations(Prop(opts, "size")) - 1)) :
     i < Len(frames[n + 1].phases)}

(***************************************************************************)
(* Synthesis                                                               *)
(***************************************************************************)
NoFrames == [present |-> FALSE, items |-> <<>>]
Frames(items) == [present |-> TRUE, items |-> items]
NoOutput == [given |-> FALSE, data |-> <<>>]
Output(data) == [given |-> TRUE, data |-> data]
\* the transform of a caller that passes no ft (ft is undefined)
NoFt == [threw |-> "undefined", size |-> 0, reverseTable |-> <<>>,
         sinTable |-> <<>>, cosTable |-> <<>>]

\* a write that replaces what the output held
OverlapWrite(output, signal, position, hopS) ==
  [j \in 1..Len(output) |->
     IF j > position /\ j <= position + hopS THEN Stored(At(signal, j - position - 1))
     ELSE output[j]]
\* add(hopS, signal, write, write) through the view
\* write = output.subarray(position, position + hopS)
OverlapAdd(output, signal, position, hopS) ==
  LET view == SubRange(output, position, position + hopS)
      write == SubSeq(output, view.lo + 1, view.hi)
      sum == add(hopS, signal, write, write)
  IN [j \in 1..Len(output) |->
        IF j > view.lo /\ j <= view.hi THEN sum[j - view.lo] ELSE output[j]]
\* steps 3 and 4 of the loop body (lines 333-337) on the inverse transform td
SynthesisWrite(st, signal, imag, rectFD, hopS) ==
  [threw |-> "none",
   output |-> OverlapAdd(st.output, signal, st.position, hopS),
   rectFD |-> rectFD,
   timeDomain |-> Complex(signal, imag),
   position |-> st.position + hopS,
   inverseCalls |-> st.inverseCalls + 1,
   trace |-> Append(st.trace, [position |-> st.position, signal |-> signal,
                               before |-> st.output])]
SynthesisStep(st, td, rectFD, hopS) ==
  IF td.threw # "none"
  THEN [st EXCEPT !.threw = td.threw, !.inverseCalls = @ + 1]
  ELSE SynthesisWrite(st, ifftshift(td.real), td.imag, rectFD, hopS)
\* steps 1 and 2 of the loop body (lines 329-331) on the rectangular frame
SynthesisFrame(st, rectFD, ft, hopS) ==
  IF ft.threw # "none"
  THEN [st EXCEPT !.threw = "TypeError: ft is undefined", !.rectFD = rectFD]
  ELSE SynthesisStep(st, inverse(ft, rectFD, st.timeDomain), rectFD, hopS)
\* the for loop of synthesis; st carries the output, the reused buffers, the
\* write position, the number of inverse transforms made and, as history, the
\* trace of the iterations: the write position, the unshifted signal and the
\* output as each iteration found them
RECURSIVE SynthesisLoop(_, _, _, _, _)
SynthesisLoop(st, frames, i, ft, hopS) ==
  IF i < Len(frames) /\ st.threw = "none"
  THEN SynthesisLoop(SynthesisFrame(st, rectangular(frames[i + 1], st.rectFD), ft, hopS),
                     frames, i + 1, ft, hopS)
  ELSE st
\* a guard that lets an empty frame array through
FramesAbsent(frames) == ~frames.present
\* line 317: the guard on frames
FramesRequired(frames) == ~frames.present \/ Len(frames.items) = 0
\* an output without room for the tail of the last frame
OutputLengthNoTail(len, hopS, size) == len * hopS
\* line 321: the length of the output synthesis allocates
OutputLength(len, hopS, size) == len * hopS + size
\* a synthesis that clears the buffer it is given
InitialOutputCleared(output, len, hopS, size) ==
  IF output.given THEN zeros(Len(output.data)) ELSE zeros(OutputLength(len, hopS, size))
\* line 321: the output synthesis starts from, the caller's as it is or a new
\* one of zeros
InitialOutput(output, len, hopS, size) ==
  IF output.given THEN output.data ELSE zeros(OutputLength(len, hopS, size))
SynthesisResult(st, given) ==
  [threw |-> st.threw, output |-> Output(st.output), allocated |-> ~given,
   inverseCalls |-> st.inverseCalls, trace |-> st.trace]
\* synthesis(frames, { ft, size, hop, sampleRate, factor }, output)
\*   -> [threw, output, allocated, inverseCalls, trace]
synthesis(frames, ft, size, hop, factor, output) ==
  IF FramesRequired(frames)
  THEN [threw |-> "\"frames\" parameter is required in synthesis",
        output |-> output, allocated |-> FALSE, inverseCalls |-> 0, trace |-> <<>>]
  ELSE SynthesisResult(
         SynthesisLoop([threw |-> "none",
                        output |-> InitialOutput(output, Len(frames.items), hop * factor, size),
                        rectFD |-> Complex(zeros(size), zeros(size)),
                        timeDomain |-> Complex(zeros(size), zeros(size)),
                        position |-> 0, inverseCalls |-> 0, trace |-> <<>>],
                       frames.items, 0, ft, hop * factor),
         output.given)

(***************************************************************************)
(* The engine and its callers                                              *)
(***************************************************************************)
VARIABLES
  engine,     \* what phaseVocoder() closed over: algorithm, size, hop, sampleRate, windowFn, omega, ft
  pc,         \* the position of the stretch call in progress
  call,       \* the arguments of the call: factor, signal, hook
  output,     \* the caller's output buffer (NoOutput when none was passed)
  frames,     \* the frame sequence of the call
  analysed,   \* history: the frames as analysis returned them
  tracked,    \* history: the frames as they entered the phase tracker
  written,    \* history: the <<frame, bin>> phases the phase tracker assigned
  stages,     \* history: the stages run so far, in order
  hookArgs,   \* history: the arguments of each invocation of the hook
  result,     \* the value returned: [given, data]
  err,        \* the error thrown, "none" when none
  inverseCalls, \* history: the inverse transforms made by synthesis
  synthArgs,  \* history: the frames and the output buffer passed to synthesis
  synthTrace, \* history: the iterations of the synthesis loop
  ft,         \* the transform under test: what fft(size) closed over (cached)
  ftBuilt,    \* history: the tables as tables(size) returned them
  fftCall,    \* the latest forward or inverse call: its input, output buffers and outcome
  buf,        \* the buffer handed to fftshift and ifftshift
  bufOrig,    \* history: the buffer buf was copied from
  shifts,     \* history: the shifts applied to buf, in order
  probe,      \* history: the first stretch call made on the engine and its outcome
  last,       \* history: the latest stretch call and its outcome
  firstSynth, \* history: the first of two synthesis calls into one output buffer
  wrapIn,     \* the frequency deviation handed to the wrap of the phase tracker
  wrapOut,    \* the wrapped deviation (undefined until computed)
  heap,       \* the arrays analysis allocated, in order of allocation
  refs,       \* the analysis call in progress: its buffers and frames as indices into heap
  snapshot,   \* history: the contents of the frames before the latest step
  lastWrite   \* history: the latest step: a produced frame or a written bin

\* the state of the transform and of the shift under test, and the history of
\* whole stretch calls
fftVars == <<ft, ftBuilt, fftCall>>
shiftVars == <<buf, bufOrig, shifts>>
callVars == <<probe, last>>
\* the state of the wrap and of the analysis storage under test
unitVars == <<wrapIn, wrapOut, heap, refs, snapshot, lastWrite>>

vars == <<engine, pc, call, output, frames, analysed, tracked, written, stages,
          hookArgs, result, err, inverseCalls, synthArgs, synthTrace,
          ft, ftBuilt, fftCall, buf, bufOrig, shifts, probe, last, firstSynth,
          wrapIn, wrapOut, heap, refs, snapshot, lastWrite>>

Algorithms == {"phase-vocoder", "paul-stretch"}
WindowFns == {"rect", "hanning"}
SampleRates == {8}
\* the hooks callers pass as timeFreqProccessing
Hooks == {"none", "negatePhases", "clearMagnitudes"}
\* the values Math.random() returns, in [0, 1)
RandomDraws == {<<Num(0), Num(9)>>, <<Num(15), Num(3)>>}

Ramp(L) == [i \in 1..L |-> Fix(i - 1)]
Impulse(L) == [i \in 1..L |-> IF i = 2 THEN Fix(1) ELSE Fix(0)]
Alternating(L) == [i \in 1..L |-> IF i % 2 = 1 THEN Fix(1) ELSE Fix(-1)]
Signals == UNION {{Ramp(L), Impulse(L), Alternating(L)} : L \in 0..MaxLen}
\* the output buffers callers pass: none, a short one and a long one, neither cleared
Outputs == {NoOutput, Output([i \in 1..3 |-> Fix(1)]), Output([i \in 1..(MaxLen + 4) |-> Fix(1)])}

\* phaseVocoder({ algorithm, size, hop, sampleRate, windowFn })
phaseVocoder(algorithm, size, hop, sampleRate, windowFn) ==
  [algorithm |-> algorithm, size |-> size, hop |-> hop, sampleRate |-> sampleRate,
   windowFn |-> windowFn,
   omega |-> [i \in 1..size |-> Stored(bandFrequency(i - 1, size, Fix(sampleRate)))],
   ft |-> tables(size)]

\* the hook's in-place edit of the frames
ApplyHook(hook, fs) ==
  IF hook = "negatePhases"
  THEN [n \in 1..Len(fs) |-> [fs[n] EXCEPT !.phases = [i \in 1..Len(@) |-> Neg(@[i])]]]
  ELSE IF hook = "clearMagnitudes"
  THEN [n \in 1..Len(fs) |-> [fs[n] EXCEPT !.magnitudes = [i \in 1..Len(@) |-> Fix(0)]]]
  ELSE fs

\* the phase tracker called before the hook
StretchOrderTrackerFirst == <<"analysis", "tracker", "hook", "synthesis">>
\* the statements of stretch, in program order (lines 756-760)
StretchOrder == <<"analysis", "hook", "tracker", "synthesis">>
StageIndex(s) == CHOOSE i \in 1..Len(StretchOrder) : StretchOrder[i] = s
\* the statement control reaches after stage number i; the hook statement is
\* skipped when no hook was passed
RECURSIVE StageAfter(_, _)
StageAfter(i, hook) ==
  IF i >= Len(StretchOrder) THEN "returned"
  ELSE IF StretchOrder[i + 1] = "hook" /\ hook = "none" THEN StageAfter(i + 1, hook)
  ELSE StretchOrder[i + 1]

\* the options stretch passes to the phase tracker (lines 758 and 759)
RecalcOptions(size, factor, hop, sampleRate) ==
  ObjectArg([size |-> Fix(size), factor |-> Fix(factor), hop |-> Fix(hop)])
\* an options object { size } in place of the number
RandomOptionsObject(size) == ObjectArg([size |-> Fix(size)])
RandomOptions(size) == NumberArg(size)

\* stretch(factor, signal, output, timeFreqProccessing) as one function of the
\* engine e and its arguments, lines 755-761; rnd is what Math.random() returns
\* during the call.  The value is that of synthesis, or the error of analysis.
StretchSynthesis(e, factor, fs, out) ==
  synthesis(Frames(fs), e.ft, e.size, e.hop, factor, out)
StretchTracker(e, factor, fs, rnd) ==
  IF e.algorithm = "phase-vocoder"
  THEN recalcPhases(fs, RecalcOptions(e.size, factor, e.hop, e.sampleRate), e.omega)
  ELSE IF e.algorithm = "paul-stretch"
  THEN randomPhases(fs, RandomOptions(e.size), rnd)
  ELSE fs
StretchAnalysed(e, factor, r, out, hook, rnd) ==
  IF r.threw # "none"
  THEN [threw |-> r.threw, output |-> out, allocated |-> FALSE, inverseCalls |-> 0,
        trace |-> <<>>]
  ELSE StretchSynthesis(e, factor, StretchTracker(e, factor, ApplyHook(hook, r.frames), rnd), out)
stretch(e, factor, signal, out, hook, rnd) ==
  StretchAnalysed(e, factor, analysis(signal, e.size, e.hop, e.windowFn, e.ft), out, hook, rnd)

\* no transform constructed, no forward or inverse call made
NoFftCall == [op |-> "none", input |-> NoBuffer, output |-> NoBuffer, chained |-> FALSE,
              source |-> NoBuffer, sourceOutput |-> NoBuffer,
              result |-> [threw |-> "none", real |-> <<>>, imag |-> <<>>]]
FftIdle == ft = NoFt /\ ftBuilt = NoFt /\ fftCall = NoFftCall
\* no buffer shifted
ShiftIdle == buf = <<>> /\ bufOrig = <<>> /\ shifts = <<>>
\* no whole stretch call recorded
NoStretchCall == [made |-> FALSE, factor |-> 1, signal |-> <<>>, hook |-> "none",
                  threw |-> "none", output |-> NoOutput, between |-> 0]
CallsIdle == probe = NoStretchCall /\ last = NoStretchCall
\* no earlier synthesis call into the output buffer
NoSynthesis == [made |-> FALSE, factor |-> 0, output |-> NoOutput, result |-> NoOutput]
\* no deviation wrapped, no analysis storage allocated
NoRefs == [running |-> FALSE, signal |-> <<>>, numFrames |-> 0, i |-> 0, window |-> 0,
           frame |-> 0, real |-> 0, imag |-> 0, frames |-> <<>>]
UnitIdle ==
  /\ wrapIn = Fix(0) /\ wrapOut = Undefined
  /\ heap = <<>> /\ refs = NoRefs /\ snapshot = <<>> /\ lastWrite = <<>>

Init ==
  /\ engine \in {phaseVocoder(a, s, h, r, w) :
                   a \in Algorithms, s \in Sizes, h \in 1..MaxHop, r \in SampleRates, w \in WindowFns}
  /\ pc = "idle"
  /\ call = [factor |-> 1, signal |-> <<>>, hook |-> "none"]
  /\ output = NoOutput
  /\ frames = <<>>
  /\ analysed = <<>>
  /\ tracked = <<>>
  /\ written = {}
  /\ stages = <<>>
  /\ hookArgs = <<>>
  /\ result = NoOutput
  /\ err = "none"
  /\ inverseCalls = 0
  /\ synthArgs = <<>>
  /\ synthTrace = <<>>
  /\ FftIdle
  /\ ShiftIdle
  /\ CallsIdle
  /\ UnitIdle
  /\ firstSynth = NoSynthesis

\* stretch(factor, signal, output, timeFreqProccessing) is entered
Stretch(factor, signal, out, hook) ==
  /\ pc = "idle"
  /\ pc' = StageAfter(0, hook)
  /\ call' = [factor |-> factor, signal |-> signal, hook |-> hook]
  /\ output' = out
  /\ frames' = <<>>
  /\ analysed' = <<>>
  /\ tracked' = <<>>
  /\ written' = {}
  /\ stages' = <<>>
  /\ hookArgs' = <<>>
  /\ result' = NoOutput
  /\ err' = "none"
  /\ inverseCalls' = 0
  /\ synthArgs' = <<>>
  /\ synthTrace' = <<>>
  /\ UNCHANGED <<fftVars, shiftVars, callVars, unitVars, firstSynth>>
  /\ UNCHANGED engine

\* line 756
AnalyseReturns(r) ==
  /\ stages' = Append(stages, "analysis")
  /\ frames' = r.frames
  /\ analysed' = r.frames
  /\ err' = r.threw
  /\ pc' = IF r.threw = "none" THEN StageAfter(StageIndex("analysis"), call.hook) ELSE "thrown"
Analyse ==
  /\ pc = "analysis"
  /\ AnalyseReturns(analysis(call.signal, engine.size, engine.hop, engine.windowFn, engine.ft))
  /\ UNCHANGED <<fftVars, shiftVars, callVars, unitVars, firstSynth>>
  /\ UNCHANGED <<engine, call, output, tracked, written, hookArgs, result, inverseCalls, synthArgs,
                 synthTrace>>

\* line 757
Hook ==
  /\ pc = "hook"
  /\ stages' = Append(stages, "hook")
  /\ hookArgs' = Append(hookArgs, [frames |-> frames, size |-> engine.size, hop |-> engine.hop,
                                   sampleRate |-> engine.sampleRate])
  /\ frames' = ApplyHook(call.hook, frames)
  /\ pc' = StageAfter(StageIndex("hook"), call.hook)
  /\ UNCHANGED <<fftVars, shiftVars, callVars, unitVars, firstSynth>>
  /\ UNCHANGED <<engine, call, output, analysed, tracked, written, result, err, inverseCalls,
                 synthArgs, synthTrace>>

\* lines 758-759
Tracker ==
  /\ pc = "tracker"
  /\ stages' = Append(stages, "tracker")
  /\ tracked' = frames
  /\ \/ /\ engine.algorithm = "phase-vocoder"
        /\ LET opts == RecalcOptions(engine.size, call.factor, engine.hop, engine.sampleRate)
           IN /\ frames' = recalcPhases(frames, opts, engine.omega)
              /\ written' = recalcPhasesWrites(frames, opts)
     \/ /\ engine.algorithm = "paul-stretch"
        /\ \E rnd \in RandomDraws :
             /\ frames' = randomPhases(frames, RandomOptions(engine.size), rnd)
             /\ written' = randomPhasesWrites(frames, RandomOptions(engine.size))
  /\ pc' = StageAfter(StageIndex("tracker"), call.hook)
  /\ UNCHANGED <<fftVars, shiftVars, callVars, unitVars, firstSynth>>
  /\ UNCHANGED <<engine, call, output, analysed, hookArgs, result, err, inverseCalls, synthArgs,
                 synthTrace>>

\* line 760
SynthesiseReturns(r) ==
  /\ stages' = Append(stages, "synthesis")
  /\ err' = r.threw
  /\ inverseCalls' = r.inverseCalls
  /\ synthTrace' = r.trace
  /\ output' = IF output.given THEN r.output ELSE output
  /\ result' = IF r.threw = "none" THEN r.output ELSE NoOutput
  /\ pc' = IF r.threw = "none" THEN StageAfter(StageIndex("synthesis"), call.hook) ELSE "thrown"
Synthesise ==
  /\ pc = "synthesis"
  /\ SynthesiseReturns(synthesis(Frames(frames), engine.ft, engine.size, engine.hop,
                                 call.factor, output))
  /\ synthArgs' = Append(synthArgs, [frames |-> Frames(frames), output |-> output])
  /\ UNCHANGED <<fftVars, shiftVars, callVars, unitVars, firstSynth>>
  /\ UNCHANGED <<engine, call, frames, analysed, tracked, written, hookArgs>>

\* the call is over: control is back with the caller, the call's frames and
\* buffers are dropped, and the engine is as it was constructed
Return ==
  /\ pc \in {"returned", "thrown"}
  /\ pc' = "idle"
  /\ call' = [factor |-> 1, signal |-> <<>>, hook |-> "none"]
  /\ output' = NoOutput
  /\ frames' = <<>>
  /\ analysed' = <<>>
  /\ tracked' = <<>>
  /\ written' = {}
  /\ stages' = <<>>
  /\ hookArgs' = <<>>
  /\ result' = NoOutput
  /\ err' = "none"
  /\ inverseCalls' = 0
  /\ synthArgs' = <<>>
  /\ synthTrace' = <<>>
  /\ UNCHANGED <<fftVars, shiftVars, callVars, unitVars, firstSynth>>
  /\ UNCHANGED engine

Next ==
  \/ \E factor \in 1..MaxFactor, signal \in Signals, out \in Outputs, hook \in Hooks :
       Stretch(factor, signal, out, hook)
  \/ Analyse
  \/ Hook
  \/ Tracker
  \/ Synthesise
  \/ Return

Spec == Init /\ [][Next]_vars

(***************************************************************************)
(* The functions called directly, as a test or another module calls them:  *)
(* analysis on a signal, then one of the phase trackers with a complete    *)
(* options object, then synthesis.  engine holds the size, hop, sampleRate *)
(* and transform the caller uses; stages lists the functions applied.      *)
(***************************************************************************)
AnalysisReturns(r) ==
  /\ frames' = r.frames
  /\ analysed' = r.frames
  /\ err' = r.threw
CallAnalysis(signal) ==
  /\ pc = "idle"
  /\ stages = <<>>
  /\ AnalysisReturns(analysis(signal, engine.size, engine.hop, engine.windowFn, engine.ft))
  /\ stages' = <<"analysis">>
  /\ call' = [factor |-> 1, signal |-> signal, hook |-> "none"]
  /\ pc' = "idle"
  /\ tracked' = <<>>
  /\ written' = {}
  /\ output' = NoOutput
  /\ result' = NoOutput
  /\ inverseCalls' = 0
  /\ synthArgs' = <<>>
  /\ synthTrace' = <<>>
  /\ UNCHANGED <<fftVars, shiftVars, callVars, unitVars, firstSynth>>
  /\ UNCHANGED <<engine, hookArgs>>

\* the options of a caller that passes every property recalcPhases reads
FullRecalcOptions(size, factor, hop, sampleRate) ==
  ObjectArg([size |-> Fix(size), factor |-> Fix(factor), hop |-> Fix(hop),
             sampleRate |-> Fix(sampleRate)])

CallRecalcPhases(factor) ==
  /\ pc = "idle"
  /\ stages = <<"analysis">>
  /\ err = "none"
  /\ stages' = Append(stages, "recalcPhases")
  /\ call' = [call EXCEPT !.factor = factor]
  /\ tracked' = frames
  /\ frames' = recalcPhases(frames, FullRecalcOptions(engine.size, factor, engine.hop, engine.sampleRate),
                            engine.omega)
  /\ written' = recalcPhasesWrites(frames, FullRecalcOptions(engine.size, factor, engine.hop,
                                                             engine.sampleRate))
  /\ UNCHANGED <<fftVars, shiftVars, callVars, unitVars, firstSynth>>
  /\ UNCHANGED <<engine, pc, output, analysed, hookArgs, result, err, inverseCalls, synthArgs,
                 synthTrace>>

CallRandomPhases(rnd) ==
  /\ pc = "idle"
  /\ stages = <<"analysis">>
  /\ err = "none"
  /\ stages' = Append(stages, "randomPhases")
  /\ tracked' = frames
  /\ frames' = randomPhases(frames, ObjectArg([size |-> Fix(engine.size)]), rnd)
  /\ written' = randomPhasesWrites(frames, ObjectArg([size |-> Fix(engine.size)]))
  /\ UNCHANGED <<fftVars, shiftVars, callVars, unitVars, firstSynth>>
  /\ UNCHANGED <<engine, pc, call, output, analysed, hookArgs, result, err, inverseCalls, synthArgs,
                 synthTrace>>

SynthesisReturns(r) ==
  /\ err' = r.threw
  /\ inverseCalls' = r.inverseCalls
  /\ synthTrace' = r.trace
  /\ output' = r.output
  /\ result' = IF r.threw = "none" THEN r.output ELSE NoOutput
\* synthesis(frames, { ft, size, hop, sampleRate, factor }, output), with the
\* frames at hand or with none (undefined)
CallSynthesis(fs, factor, out) ==
  /\ pc = "idle"
  /\ synthArgs = <<>>
  /\ err = "none"
  /\ stages' = Append(stages, "synthesis")
  /\ call' = [call EXCEPT !.factor = factor]
  /\ synthArgs' = <<[frames |-> fs, output |-> out]>>
  /\ SynthesisReturns(synthesis(fs, engine.ft, engine.size, engine.hop, factor, out))
  /\ UNCHANGED <<fftVars, shiftVars, callVars, unitVars, firstSynth>>
  /\ UNCHANGED <<engine, pc, frames, analysed, tracked, written, hookArgs>>
\* a second synthesis(frames, options, output) of the same frames into the
\* buffer the first call was given and returned, which the caller did not clear
CallSynthesisAgain(factor) ==
  /\ pc = "idle"
  /\ synthArgs # <<>>
  /\ err = "none"
  /\ ~firstSynth.made
  /\ synthArgs[1].output.given
  /\ firstSynth' = [made |-> TRUE, factor |-> call.factor, output |-> synthArgs[1].output,
                    result |-> result]
  /\ stages' = Append(stages, "synthesis")
  /\ call' = [call EXCEPT !.factor = factor]
  /\ synthArgs' = <<[frames |-> synthArgs[1].frames, output |-> result]>>
  /\ SynthesisReturns(synthesis(synthArgs[1].frames, engine.ft, engine.size, engine.hop, factor,
                                result))
  /\ UNCHANGED <<fftVars, shiftVars, callVars, unitVars>>
  /\ UNCHANGED <<engine, pc, frames, analysed, tracked, written, hookArgs>>

NextFn ==
  \/ \E signal \in Signals : CallAnalysis(signal)
  \/ \E factor \in 1..MaxFactor : CallRecalcPhases(factor)
  \/ \E rnd \in RandomDraws : CallRandomPhases(rnd)
  \/ \E fs \in {NoFrames, Frames(frames)}, factor \in 1..MaxFactor, out \in Outputs :
       CallSynthesis(fs, factor, out)
  \/ \E factor \in 1..MaxFactor : CallSynthesisAgain(factor)

SpecFn == Init /\ [][NextFn]_vars


(***************************************************************************)
(* The transform on its own.  A caller constructs either a transform with  *)
(* fft(size), and then calls forward and inverse on it in any order, on    *)
(* real-only and complex inputs of any length, with and without output     *)
(* buffers; or a vocoder with phaseVocoder({ size }), whose transform is   *)
(* private to the stretch function.  pc = "idle" says a stretch function   *)
(* was returned.                                                           *)
(***************************************************************************)
\* no vocoder was constructed
NoEngine == [algorithm |-> "none", size |-> 0, hop |-> 0, sampleRate |-> 0, windowFn |-> "rect",
             omega |-> <<>>, ft |-> NoFt]
Ones(n) == [i \in 1..n |-> Fix(1)]
\* the inputs callers pass to forward and inverse
FftInputs ==
  {RealOnly(x) : x \in Signals}
    \cup {Complex(Ramp(L), Impulse(M)) : L \in 0..(MaxSize + 1), M \in 0..(MaxSize + 1)}
\* the output buffers callers pass: none, full length, size/2+1 bins, size/2 bins
FftOutputs(size) ==
  {NoBuffer, Complex(Ones(size), Ones(size)),
   Complex(Ones(size \div 2 + 1), Ones(size \div 2 + 1)),
   Complex(Ones(size \div 2), Ones(size \div 2))}

InitFft ==
  /\ engine = NoEngine
  /\ pc = "unconstructed"
  /\ call = [factor |-> 1, signal |-> <<>>, hook |-> "none"]
  /\ output = NoOutput
  /\ frames = <<>>
  /\ analysed = <<>>
  /\ tracked = <<>>
  /\ written = {}
  /\ stages = <<>>
  /\ hookArgs = <<>>
  /\ result = NoOutput
  /\ err = "none"
  /\ inverseCalls = 0
  /\ synthArgs = <<>>
  /\ synthTrace = <<>>
  /\ FftIdle
  /\ ShiftIdle
  /\ CallsIdle
  /\ UnitIdle
  /\ firstSynth = NoSynthesis

pipelineVars == <<call, output, frames, analysed, tracked, written, stages, hookArgs, result,
                  inverseCalls, synthArgs, synthTrace, firstSynth>>

\* fft(size), line 560-566: cached = tables(size)
Built(tb) ==
  /\ ft' = tb
  /\ ftBuilt' = tb
  /\ err' = tb.threw
Construct(size) ==
  /\ Built(tables(size))
  /\ fftCall' = NoFftCall
  /\ engine' = NoEngine
  /\ pc' = "unconstructed"
  /\ UNCHANGED <<pipelineVars, unitVars, shiftVars, callVars>>

\* phaseVocoder({ algorithm, size, hop, sampleRate, windowFn }), lines 744-754:
\* the stretch function is returned after fft(size) has returned
VocoderBuilt(e) ==
  /\ engine' = e
  /\ err' = e.ft.threw
  /\ pc' = IF e.ft.threw = "none" THEN "idle" ELSE "unconstructed"
ConstructVocoder(algorithm, size, hop, sampleRate, windowFn) ==
  /\ VocoderBuilt(phaseVocoder(algorithm, size, hop, sampleRate, windowFn))
  /\ ft' = NoFt
  /\ ftBuilt' = NoFt
  /\ fftCall' = NoFftCall
  /\ UNCHANGED <<pipelineVars, unitVars, shiftVars, callVars>>

\* forward(input, output) or inverse(input, output) on the constructed transform
Transformed(op, input, out, chained, r) ==
  /\ fftCall' = [op |-> op, input |-> input, output |-> out, chained |-> chained,
                 source |-> IF chained THEN fftCall.input ELSE NoBuffer,
                 sourceOutput |-> IF chained THEN fftCall.output ELSE NoBuffer,
                 result |-> r]
  /\ ft' = processTables(ft)
  /\ UNCHANGED <<engine, pc, err, ftBuilt, pipelineVars, unitVars, shiftVars, callVars>>
Forward(input, out) ==
  /\ ft.threw = "none"
  /\ ft.size \in Sizes
  /\ Transformed("forward", input, out, FALSE, forward(ft, input, out))
Inverse(input, out) ==
  /\ ft.threw = "none"
  /\ ft.size \in Sizes
  /\ Transformed("inverse", input, out, FALSE, inverse(ft, input, out))
\* inverse(forward(x)): the inverse of the frame the latest forward call returned
InverseOfForward(out) ==
  /\ ft.threw = "none"
  /\ fftCall.op = "forward"
  /\ fftCall.result.threw = "none"
  /\ Transformed("inverse", Complex(fftCall.result.real, fftCall.result.imag), out, TRUE,
                 inverse(ft, Complex(fftCall.result.real, fftCall.result.imag), out))

NextFft ==
  \/ \E size \in 0..MaxTableSize : Construct(size)
  \/ \E a \in Algorithms, size \in 0..MaxSize, h \in 1..MaxHop, r \in SampleRates, w \in WindowFns :
       ConstructVocoder(a, size, h, r, w)
  \/ \E input \in FftInputs, out \in FftOutputs(ft.size) : Forward(input, out)
  \/ \E input \in FftInputs, out \in FftOutputs(ft.size) : Inverse(input, out)
  \/ \E out \in FftOutputs(ft.size) : InverseOfForward(out)

SpecFft == InitFft /\ [][NextFft]_vars

(***************************************************************************)
(* The shifts on their own: fftshift and ifftshift applied, in any order,  *)
(* to a copy buf of a buffer bufOrig.                                      *)
(***************************************************************************)
InitShift ==
  /\ engine = NoEngine
  /\ pc = "unconstructed"
  /\ call = [factor |-> 1, signal |-> <<>>, hook |-> "none"]
  /\ output = NoOutput
  /\ frames = <<>>
  /\ analysed = <<>>
  /\ tracked = <<>>
  /\ written = {}
  /\ stages = <<>>
  /\ hookArgs = <<>>
  /\ result = NoOutput
  /\ err = "none"
  /\ inverseCalls = 0
  /\ synthArgs = <<>>
  /\ synthTrace = <<>>
  /\ FftIdle
  /\ CallsIdle
  /\ UnitIdle
  /\ firstSynth = NoSynthesis
  /\ bufOrig \in Signals
  /\ buf = bufOrig
  /\ shifts = <<>>

CallFftshift ==
  /\ Len(shifts) < MaxShifts
  /\ buf' = fftshift(buf)
  /\ shifts' = Append(shifts, "fftshift")
  /\ UNCHANGED <<engine, pc, err, bufOrig, pipelineVars, unitVars, fftVars, callVars>>
CallIfftshift ==
  /\ Len(shifts) < MaxShifts
  /\ buf' = ifftshift(buf)
  /\ shifts' = Append(shifts, "ifftshift")
  /\ UNCHANGED <<engine, pc, err, bufOrig, pipelineVars, unitVars, fftVars, callVars>>

NextShift == CallFftshift \/ CallIfftshift

SpecShift == InitShift /\ [][NextShift]_vars

(***************************************************************************)
(* Whole stretch calls on one engine, one after the other, each without an *)
(* output buffer.  probe keeps the first call and what it returned or      *)
(* threw, last the latest one; last.between says whether a call with other *)
(* arguments was made since the first.                                     *)
(***************************************************************************)
\* the signals and hooks of the repeated calls
CallSignals == {Ramp(MaxLen), Impulse(2)}
CallHooks == {"none", "negatePhases"}
SameArguments(a, b) == a.factor = b.factor /\ a.signal = b.signal /\ a.hook = b.hook
Called(c) ==
  /\ probe' = IF probe.made THEN probe ELSE c
  /\ last' = [c EXCEPT !.between = IF ~probe.made THEN 0
                                    ELSE IF SameArguments(c, probe) THEN last.between
                                    ELSE 1]
StretchReturned(factor, signal, hook, r) ==
  Called([made |-> TRUE, factor |-> factor, signal |-> signal, hook |-> hook,
          threw |-> r.threw, output |-> IF r.threw = "none" THEN r.output ELSE NoOutput,
          between |-> 0])
StretchCall(factor, signal, hook, rnd) ==
  /\ pc = "idle"
  /\ StretchReturned(factor, signal, hook, stretch(engine, factor, signal, NoOutput, hook, rnd))
  /\ UNCHANGED <<engine, pc, err, pipelineVars, unitVars, fftVars, shiftVars>>

NextCalls ==
  \E factor \in 1..MaxFactor, signal \in CallSignals, hook \in CallHooks, rnd \in RandomDraws :
    StretchCall(factor, signal, hook, rnd)

SpecCalls == Init /\ [][NextCalls]_vars

(***************************************************************************)
(* The wrap of the phase tracker on its own: line 300 applied to one       *)
(* frequency deviation, positive or negative.                              *)
(***************************************************************************)
\* nothing called on the vocoder pipeline, the transform, the shifts
PipelineIdle ==
  /\ engine = NoEngine
  /\ pc = "unconstructed"
  /\ call = [factor |-> 1, signal |-> <<>>, hook |-> "none"]
  /\ output = NoOutput
  /\ frames = <<>>
  /\ analysed = <<>>
  /\ tracked = <<>>
  /\ written = {}
  /\ stages = <<>>
  /\ hookArgs = <<>>
  /\ result = NoOutput
  /\ err = "none"
  /\ inverseCalls = 0
  /\ synthArgs = <<>>
  /\ synthTrace = <<>>
  /\ firstSynth = NoSynthesis

InitWrap ==
  /\ PipelineIdle
  /\ FftIdle
  /\ ShiftIdle
  /\ CallsIdle
  /\ wrapIn \in {Num(n) : n \in (-MaxDelta)..MaxDelta}
  /\ wrapOut = Undefined
  /\ heap = <<>> /\ refs = NoRefs /\ snapshot = <<>> /\ lastWrite = <<>>

Wrap ==
  /\ wrapOut = Undefined
  /\ wrapOut' = WrappedDeltaFreq(wrapIn)
  /\ UNCHANGED <<engine, pc, err, pipelineVars, fftVars, shiftVars, callVars,
                 wrapIn, heap, refs, snapshot, lastWrite>>

NextWrap == Wrap

SpecWrap == InitWrap /\ [][NextWrap]_vars

(***************************************************************************)
(* The storage of analysis.  The arrays analysis allocates live in heap,   *)
(* in order of allocation, and are held by index: the window, the scratch  *)
(* frame, the scratch buffers of fdFrame, and the magnitudes and phases of *)
(* each frame produced.  The loop of lines 421-431 runs one iteration per  *)
(* step; after analysis has returned, the hook or the phase tracker writes *)
(* a bin of a frame through the frame's reference.                         *)
(***************************************************************************)
HeapSet(h, id, a) == [h EXCEPT ![id] = a]
\* line 83: polar writes into the output it is given, or into two new arrays
PolarTarget(h, given) ==
  IF given.magnitudes # 0 THEN given
  ELSE [magnitudes |-> Len(h) + 1, phases |-> Len(h) + 2]
\* a call polar(fdFrame, output) that hands polar the arrays of the first frame
AnalysisPolarArgReused(r) ==
  IF r.frames = <<>> THEN [magnitudes |-> 0, phases |-> 0] ELSE r.frames[1]
\* line 431: polar(fdFrame) is called without an output
AnalysisPolarArg(r) == [magnitudes |-> 0, phases |-> 0]
\* line 422: frame.set(signal.subarray(i * hop, i * hop + size))
StepLoad(h, r, size, hop) == HeapSet(h, r.frame, Slice(r.signal, r.i * hop, size))
\* line 424: mult(size, window, frame, frame)
StepWindow(h, r, size) == HeapSet(h, r.frame, mult(size, h[r.window], h[r.frame], h[r.frame]))
\* line 426: fftshift(frame)
StepShift(h, r) == HeapSet(h, r.frame, fftshift(h[r.frame]))
\* line 428: ft.forward(frame, fdFrame)
StepForwardInto(h, r, fd) == [h EXCEPT ![r.real] = fd.real, ![r.imag] = fd.imag]
StepForward(h, r, tb) ==
  StepForwardInto(h, r, forward(tb, RealOnly(h[r.frame]), Complex(h[r.real], h[r.imag])))
\* lines 83-91: the polar form p written into the target arrays
StepPolarWrite(h, target, p) ==
  IF target.magnitudes > Len(h)
  THEN h \o <<p.magnitudes, p.phases>>
  ELSE [h EXCEPT ![target.magnitudes] =
                   [j \in 1..Len(@) |-> IF j <= Len(p.magnitudes) THEN p.magnitudes[j] ELSE @[j]],
                 ![target.phases] =
                   [j \in 1..Len(@) |-> IF j <= Len(p.phases) THEN p.phases[j] ELSE @[j]]]
\* line 431: frames[i] = polar(fdFrame)
StepPolar(h, r) ==
  StepPolarWrite(h, PolarTarget(h, AnalysisPolarArg(r)), polar(Complex(h[r.real], h[r.imag])))
\* one iteration of the loop of analysis on the heap
AnalysisHeapStep(h, r, e) ==
  StepPolar(StepForward(StepShift(StepWindow(StepLoad(h, r, e.size, e.hop), r, e.size), r),
                        r, e.ft),
            r)
\* the contents of the frames fs refers to
Deref(h, fs) == [k \in 1..Len(fs) |-> [magnitudes |-> h[fs[k].magnitudes],
                                       phases |-> h[fs[k].phases]]]

\* lines 412-419: the window, the frames array and the scratch buffers
HeapAnalysisStart(signal) ==
  /\ pc = "idle"
  /\ heap = <<>>
  /\ ~refs.running
  /\ err = "none"
  /\ IF NumFrames(Len(signal), engine.size, engine.hop) < 0
     THEN /\ err' = "RangeError: Invalid array length"
          /\ UNCHANGED <<heap, refs>>
     ELSE /\ err' = "none"
          /\ heap' = <<fill(engine.size, engine.windowFn), zeros(engine.size),
                       zeros(engine.size), zeros(engine.size)>>
          /\ refs' = [running |-> TRUE, signal |-> signal,
                      numFrames |-> NumFrames(Len(signal), engine.size, engine.hop), i |-> 0,
                      window |-> 1, frame |-> 2, real |-> 3, imag |-> 4, frames |-> <<>>]
  /\ UNCHANGED <<engine, pc, pipelineVars, fftVars, shiftVars, callVars,
                 wrapIn, wrapOut, snapshot, lastWrite>>
\* lines 421-431: iteration refs.i
HeapAnalysisStep ==
  /\ refs.running
  /\ refs.i < refs.numFrames
  /\ heap' = AnalysisHeapStep(heap, refs, engine)
  /\ refs' = [refs EXCEPT !.frames = Append(@, PolarTarget(heap, AnalysisPolarArg(refs))),
                          !.i = @ + 1]
  /\ snapshot' = Deref(heap, refs.frames)
  /\ lastWrite' = <<"frame", refs.i>>
  /\ UNCHANGED <<engine, pc, err, pipelineVars, fftVars, shiftVars, callVars, wrapIn, wrapOut>>
\* line 432: return frames
HeapAnalysisReturn ==
  /\ refs.running
  /\ refs.i >= refs.numFrames
  /\ refs' = [refs EXCEPT !.running = FALSE]
  /\ snapshot' = Deref(heap, refs.frames)
  /\ lastWrite' = <<"return", refs.i>>
  /\ UNCHANGED <<engine, pc, err, heap, pipelineVars, fftVars, shiftVars, callVars,
                 wrapIn, wrapOut>>
\* frames[j].magnitudes[bin] = x or frames[j].phases[bin] = x, by the hook
\* (line 757) or the phase tracker (lines 304, 403)
HeapWriteBin(j, field, bin, x) ==
  /\ ~refs.running
  /\ Len(lastWrite) > 0 /\ lastWrite[1] = "return"
  /\ j \in 1..Len(refs.frames)
  /\ heap' = [heap EXCEPT ![refs.frames[j][field]] = Put(@, bin, x)]
  /\ snapshot' = Deref(heap, refs.frames)
  /\ lastWrite' = <<"write", j>>
  /\ UNCHANGED <<engine, pc, err, refs, pipelineVars, fftVars, shiftVars, callVars,
                 wrapIn, wrapOut>>

NextHeap ==
  \/ \E signal \in Signals : HeapAnalysisStart(signal)
  \/ HeapAnalysisStep
  \/ HeapAnalysisReturn
  \/ \E j \in 1..MaxLen, field \in {"magnitudes", "phases"}, bin \in 0..(engine.size - 1) :
       HeapWriteBin(j, field, bin, Fix(99))

SpecHeap == Init /\ [][NextHeap]_vars

(***************************************************************************)
(* paulStretch(): the stretch function of lines 768-774, called as a whole *)
(***************************************************************************)
\* paulStretch({ size, hop, sampleRate }): the closure holds no transform and
\* no window
paulStretch(size, hop, sampleRate) ==
  [algorithm |-> "paulStretch", size |-> size, hop |-> hop, sampleRate |-> sampleRate,
   windowFn |-> "rect", omega |-> <<>>, ft |-> NoFt]
\* line 772: synthesis(frames, { size, hop, factor, sampleRate }), without ft
\* and without output
PaulSynthesis(e, factor, fs) == synthesis(Frames(fs), NoFt, e.size, e.hop, factor, NoOutput)
\* line 770: analysis(signal, { size, hop }) takes its defaults: the window
\* () => 1 and a transform fft(size) of its own
PaulAnalysis(e, signal) == analysis(signal, e.size, e.hop, "rect", tables(e.size))

InitPaul ==
  /\ engine \in {paulStretch(s, h, r) : s \in Sizes, h \in 1..MaxHop, r \in SampleRates}
  /\ pc = "idle"
  /\ call = [factor |-> 1, signal |-> <<>>, hook |-> "none"]
  /\ output = NoOutput
  /\ frames = <<>>
  /\ analysed = <<>>
  /\ tracked = <<>>
  /\ written = {}
  /\ stages = <<>>
  /\ hookArgs = <<>>
  /\ result = NoOutput
  /\ err = "none"
  /\ inverseCalls = 0
  /\ synthArgs = <<>>
  /\ synthTrace = <<>>
  /\ firstSynth = NoSynthesis
  /\ FftIdle
  /\ ShiftIdle
  /\ CallsIdle
  /\ UnitIdle

\* line 772 and the return
PaulSynthesised(r) ==
  /\ err' = r.threw
  /\ result' = IF r.threw = "none" THEN r.output ELSE NoOutput
  /\ inverseCalls' = r.inverseCalls
  /\ synthTrace' = r.trace
  /\ pc' = IF r.threw = "none" THEN "returned" ELSE "thrown"
\* lines 770-772 on the value r of analysis
PaulAnalysed(factor, r, rnd) ==
  /\ analysed' = r.frames
  /\ tracked' = r.frames
  /\ IF r.threw # "none"
     THEN /\ err' = r.threw
          /\ pc' = "thrown"
          /\ UNCHANGED <<frames, written, result, inverseCalls, synthTrace, synthArgs>>
     ELSE /\ frames' = randomPhases(r.frames, RandomOptions(engine.size), rnd)
          /\ written' = randomPhasesWrites(r.frames, RandomOptions(engine.size))
          /\ synthArgs' = <<[frames |-> Frames(randomPhases(r.frames, RandomOptions(engine.size), rnd)),
                             output |-> NoOutput]>>
          /\ PaulSynthesised(PaulSynthesis(engine, factor,
                                           randomPhases(r.frames, RandomOptions(engine.size), rnd)))
PaulStretchCall(factor, signal, rnd) ==
  /\ pc = "idle"
  /\ stages = <<>>
  /\ stages' = <<"paulStretch">>
  /\ call' = [factor |-> factor, signal |-> signal, hook |-> "none"]
  /\ PaulAnalysed(factor, PaulAnalysis(engine, signal), rnd)
  /\ UNCHANGED <<engine, output, hookArgs, firstSynth, fftVars, shiftVars, callVars, unitVars>>

NextPaul ==
  \E factor \in 1..MaxFactor, signal \in Signals, rnd \in RandomDraws :
    PaulStretchCall(factor, signal, rnd)

SpecPaul == InitPaul /\ [][NextPaul]_vars

(***************************************************************************)
(* Claims                                                                  *)
(***************************************************************************)
Ran(stage) == \E k \in 1..Len(stages) : stages[k] = stage
AnalysisReturned == Ran("analysis") /\ err # "RangeError: Invalid array length"

\* C1: for a signal of length L >= size and a hop >= 1, analysis returns
\* exactly floor((L - size) / hop) frames, and the magnitudes and the phases of
\* every frame have length size.
C1_FrameCount ==
  (Ran("analysis") /\ Len(call.signal) >= engine.size) =>
    /\ AnalysisReturned
    /\ Len(analysed) = (Len(call.signal) - engine.size) \div engine.hop
    /\ \A n \in 1..Len(analysed) :
         /\ Len(analysed[n].magnitudes) = engine.size
         /\ Len(analysed[n].phases) = engine.size
C1_Witness ==
  /\ Ran("analysis")
  /\ engine.size = 4 /\ engine.hop = 1 /\ Len(call.signal) = 6
  /\ Len(analysed) = 2

\* C2: a stretch call without an output buffer whose analysis yields at least
\* one frame returns a signal of length numFrames * hop * factor + size.
C2_OutputLength ==
  (Ran("synthesis") /\ ~output.given /\ Len(analysed) >= 1) =>
    /\ pc # "thrown"
    /\ result.given
    /\ Len(result.data) = Len(analysed) * engine.hop * call.factor + engine.size
C2_Witness ==
  /\ pc = "returned" /\ ~output.given
  /\ Len(analysed) = 2 /\ engine.hop = 2 /\ call.factor = 2 /\ engine.size = 2
  /\ Len(result.data) = 10

\* the stages of a call in the order of the statements of stretch
C3_Expected ==
  IF call.hook = "none" THEN <<"analysis", "tracker", "synthesis">>
  ELSE <<"analysis", "hook", "tracker", "synthesis">>
\* C3: the stages of a stretch call run in the order analysis, hook (when one
\* is passed), phase tracker, synthesis; the hook is invoked once, after
\* analysis and before the tracker, with the analysed frames and
\* {size, hop, sampleRate}, and the tracker and synthesis work on the frames as
\* the hook left them.
C3_StageOrder ==
  /\ Len(stages) <= Len(C3_Expected)
  /\ stages = SubSeq(C3_Expected, 1, Len(stages))
  /\ Len(hookArgs) = (IF Ran("hook") THEN 1 ELSE 0)
  /\ (Ran("tracker") /\ call.hook # "none") => Ran("hook")
  /\ Ran("hook") =>
       /\ call.hook # "none"
       /\ hookArgs[1] = [frames |-> analysed, size |-> engine.size, hop |-> engine.hop,
                         sampleRate |-> engine.sampleRate]
  /\ Ran("tracker") => tracked = ApplyHook(call.hook, analysed)
  /\ Ran("synthesis") =>
       /\ synthArgs[1].frames = Frames(frames)
       /\ \A n \in 1..Len(frames) :
            frames[n].magnitudes = ApplyHook(call.hook, analysed)[n].magnitudes
C3_Witness ==
  /\ pc = "returned"
  /\ call.hook = "clearMagnitudes"
  /\ Len(hookArgs) = 1
  /\ tracked # analysed
  /\ stages = <<"analysis", "hook", "tracker", "synthesis">>

\* the options object stretch passes to recalcPhases
C4_Options ==
  RecalcOptions(engine.size, call.factor, engine.hop, engine.sampleRate)
\* C4: under 'phase-vocoder' the tracker computes the hop times from the
\* engine's sampleRate, both defined numbers, and writes for every bin of every
\* frame i >= 2 the previous phase + modifiedHopTime * instFreq.
C4_TrackerUsesSampleRate ==
  (Ran("tracker") /\ engine.algorithm = "phase-vocoder" /\ Len(frames) >= 3) =>
    /\ OriginalHopTime(C4_Options) = Div(Fix(engine.hop), Fix(engine.sampleRate))
    /\ ModifiedHopTime(C4_Options) = Div(Fix(engine.hop * call.factor), Fix(engine.sampleRate))
    /\ frames = recalcPhases(tracked, FullRecalcOptions(engine.size, call.factor, engine.hop,
                                                        engine.sampleRate), engine.omega)

\* C5: under 'paul-stretch', after the tracker every bin 0..size-1 of every
\* frame holds a newly assigned random phase in [0, 2 PI).
C5_AllBinsRandomized ==
  (Ran("tracker") /\ engine.algorithm = "paul-stretch") =>
    \A n \in 1..Len(frames) : \A i \in 0..(engine.size - 1) :
      /\ <<n - 1, i>> \in written
      /\ IsNum(frames[n].phases[i + 1])
      /\ frames[n].phases[i + 1].v >= 0
      /\ frames[n].phases[i + 1].v < PI2.v

\* C6: randomPhases leaves the magnitudes of every frame as they were,
\* element for element; it writes phases only.
C6_MagnitudesKept ==
  Ran("randomPhases") =>
    /\ Len(frames) = Len(tracked)
    /\ \A n \in 1..Len(frames) : frames[n].magnitudes = tracked[n].magnitudes
C6_Witness ==
  /\ Ran("randomPhases")
  /\ Len(frames) >= 2
  /\ engine.size = 2
  /\ \A n \in 1..Len(frames) : \A i \in 1..engine.size :
       <<n - 1, i - 1>> \in written /\ frames[n].phases[i] # tracked[n].phases[i]

\* C7: recalcPhases writes only the phases of the frames with index >= 2:
\* frame 0, frame 1 and every magnitudes array are as before the call, and a
\* sequence of fewer than 3 frames is unchanged.
C7_FirstTwoFramesKept ==
  Ran("recalcPhases") =>
    /\ Len(frames) = Len(tracked)
    /\ \A n \in 1..Len(frames) : frames[n].magnitudes = tracked[n].magnitudes
    /\ \A n \in 1..Len(frames) : n <= 2 => frames[n].phases = tracked[n].phases
    /\ Len(tracked) < 3 => frames = tracked
    /\ \A w \in written : w[1] >= 2
C7_Witness ==
  /\ Ran("recalcPhases")
  /\ Len(frames) >= 4
  /\ \E n \in 3..Len(frames) :
       /\ IsNum(frames[n].phases[1])
       /\ frames[n].phases[1] # tracked[n].phases[1]
  /\ frames[2].phases # frames[1].phases

\* C8: analysis called with a signal shorter than size does not throw and
\* returns a frame sequence of length 0.
C8_ShortSignalNoFrames ==
  (Ran("analysis") /\ Len(call.signal) < engine.size) =>
    err = "none" /\ Len(analysed) = 0

\* C9: a stretch call whose input yields no frame (a signal shorter than
\* size + hop) completes with an empty result and raises no error.
C9_NoFramesNoError ==
  (Len(stages) >= 1 /\ Len(call.signal) < engine.size + engine.hop) =>
    pc # "thrown" /\ err = "none"

\* C10: synthesis called with no frames (undefined) or with an empty frame
\* array throws the frames-required error before it allocates or writes: the
\* output buffer passed is as before and no inverse transform is made.
C10_FramesRequired ==
  (Ran("synthesis") /\ (~synthArgs[1].frames.present \/ synthArgs[1].frames.items = <<>>)) =>
    /\ err = "\"frames\" parameter is required in synthesis"
    /\ ~result.given
    /\ output = synthArgs[1].output
    /\ inverseCalls = 0
C10_Witness ==
  /\ Ran("synthesis")
  /\ ~synthArgs[1].frames.present
  /\ synthArgs[1].output.given
  /\ err = "\"frames\" parameter is required in synthesis"
  /\ output = synthArgs[1].output

\* n is one of 1, 2, 4, 8, ...
IsPowerOfTwo(n) == \E k \in 0..n : 2^k = n
\* C11: fft(size) throws the construction error for every size 0, 3, 5, 6, ...
\* that is no power of two and returns a transform for 1, 2, 4, ...;
\* phaseVocoder({ size }) returns a stretch function for exactly these sizes.
C11_PowerOfTwoOnly ==
  /\ ft # NoFt =>
       /\ (ft.threw = "none") <=> IsPowerOfTwo(ft.size)
       /\ ft.threw \in {"none", "Size must be a power of 2"}
       /\ err = ft.threw
  /\ engine # NoEngine =>
       /\ (pc = "idle") <=> IsPowerOfTwo(engine.size)
       /\ pc # "idle" => (pc = "unconstructed" /\ err = "Size must be a power of 2")
C11_Witness ==
  /\ ft # NoFt
  /\ ft.size = 0
  /\ ft.threw = "Size must be a power of 2"
  /\ err = "Size must be a power of 2"

\* the direction of the latest transform call
FftDir == IF fftCall.op = "forward" THEN 1 ELSE -1
\* the output buffers of the latest transform call hold what they held before it
FftOutputKept ==
  fftCall.output.given =>
    (fftCall.result.real = fftCall.output.real /\ fftCall.result.imag = fftCall.output.imag)
\* C12: forward and inverse throw the length error when the real or the
\* imaginary buffer of the input is not of length size, leaving the output
\* buffers as they were; a real-only input of length size is transformed as the
\* complex input with an all-zero imaginary part.
C12_LengthChecked ==
  fftCall.op # "none" =>
    /\ Len(fftCall.input.real) # ft.size =>
         (fftCall.result.threw = "Real buffer length" /\ FftOutputKept)
    /\ (fftCall.input.given /\ Len(fftCall.input.real) = ft.size
          /\ Len(fftCall.input.imag) # ft.size) =>
         (fftCall.result.threw = "Imag buffer length" /\ FftOutputKept)
    /\ (~fftCall.input.given /\ Len(fftCall.input.real) = ft.size) =>
         /\ fftCall.result.threw = "none"
         /\ fftCall.result = process(FftDir, ft, Complex(fftCall.input.real, zeros(ft.size)),
                                     fftCall.output)
C12_Witness ==
  /\ fftCall.op = "inverse"
  /\ fftCall.input.given
  /\ ft.size = 4
  /\ Len(fftCall.input.real) = 4
  /\ Len(fftCall.input.imag) = 3
  /\ fftCall.output.given
  /\ fftCall.result.threw = "Imag buffer length"
  /\ fftCall.result.real = Ones(4)

\* the buffers are absent or of the transform's length
FullLength(buffers) == ~buffers.given \/ (Len(buffers.real) = ft.size /\ Len(buffers.imag) = ft.size)
\* C13: for a real signal x of length size, a power of two, the real part of
\* inverse(forward(x)) is x, element for element.
C13_RoundTrip ==
  (/\ fftCall.op = "inverse" /\ fftCall.chained
   /\ Len(fftCall.source.real) = ft.size
   /\ fftCall.source.given => fftCall.source.imag = zeros(ft.size)
   /\ FullLength(fftCall.sourceOutput) /\ FullLength(fftCall.output)) =>
    /\ fftCall.result.threw = "none"
    /\ fftCall.result.real = fftCall.source.real
C13_Witness ==
  /\ fftCall.op = "inverse" /\ fftCall.chained
  /\ ft.size = 4
  /\ ~fftCall.source.given /\ fftCall.source.real = Ramp(4)
  /\ ~fftCall.output.given /\ ~fftCall.sourceOutput.given
  /\ fftCall.result.real = Ramp(4)

\* C14: for a buffer x of any length N >= 0, fftshift and then ifftshift
\* applied to a copy of x leave the copy equal to x.
C14_ShiftRoundTrip ==
  shifts = <<"fftshift", "ifftshift">> => buf = bufOrig
C14_Witness ==
  /\ shifts = <<"fftshift", "ifftshift">>
  /\ bufOrig = Ramp(5)
  /\ buf = Ramp(5)

\* C16: a forward or inverse call with output buffers shorter than size does
\* not fail, keeps the buffers' length, and leaves in them the leading bins of
\* the transform computed into full-length buffers.
C16_ShortOutput ==
  (/\ fftCall.op # "none" /\ fftCall.output.given
   /\ Len(fftCall.output.real) < ft.size
   /\ Len(fftCall.input.real) = ft.size
   /\ fftCall.input.given => Len(fftCall.input.imag) = ft.size) =>
    /\ fftCall.result.threw = "none"
    /\ Len(fftCall.result.real) = Len(fftCall.output.real)
    /\ Len(fftCall.result.imag) = Len(fftCall.output.imag)
    /\ \A i \in 1..Len(fftCall.result.real) :
         /\ fftCall.result.real[i] = process(FftDir, ft, fftCall.input, NoBuffer).real[i]
         /\ fftCall.result.imag[i] = process(FftDir, ft, fftCall.input, NoBuffer).imag[i]

C15_FactorOneKeepsPhases ==
  (Ran("tracker") /\ engine.algorithm = "phase-vocoder" /\ call.factor = 1) =>
    \A n \in 3..Len(frames) : \A b \in 1..engine.size :
      IsNum(tracked[n].phases[b]) =>
        /\ IsNum(frames[n].phases[b])
        /\ (frames[n].phases[b].v - tracked[n].phases[b].v) % PI2.v = 0

FrameSignal(frame) ==
  ifftshift(inverse(engine.ft,
                    rectangular(frame, Complex(zeros(engine.size), zeros(engine.size))),
                    NoBuffer).real)
\* the output as iteration k of the synthesis loop left it
OutputAfter(k) == IF k < Len(synthTrace) THEN synthTrace[k + 1].before ELSE result.data
\* C19: synthesis takes the frames in index order; iteration i finds the write
\* position at i * hop * factor and adds the leading hop * factor samples of the
\* inverse-transformed, unshifted frame i to the output there (new value =
\* previous value + sample), leaving every other output position as it was.
C19_WritePosition ==
  (Ran("synthesis") /\ err = "none") =>
    /\ Len(synthTrace) = Len(synthArgs[1].frames.items)
    /\ synthTrace[1].before =
         (IF synthArgs[1].output.given THEN synthArgs[1].output.data
          ELSE zeros(Len(synthTrace) * engine.hop * call.factor + engine.size))
    /\ \A k \in 1..Len(synthTrace) :
         /\ synthTrace[k].position = (k - 1) * engine.hop * call.factor
         /\ synthTrace[k].signal = FrameSignal(synthArgs[1].frames.items[k])
         /\ Len(OutputAfter(k)) = Len(synthTrace[k].before)
         /\ \A j \in 1..Len(OutputAfter(k)) :
              IF j <= synthTrace[k].position \/ j > synthTrace[k].position + engine.hop * call.factor
              THEN OutputAfter(k)[j] = synthTrace[k].before[j]
              ELSE (j - synthTrace[k].position <= engine.size) =>
                     OutputAfter(k)[j] =
                       Stored(Add(synthTrace[k].before[j],
                                  synthTrace[k].signal[j - synthTrace[k].position]))
C19_Witness ==
  /\ Ran("synthesis") /\ err = "none"
  /\ synthArgs[1].output.given
  /\ engine.size = 4 /\ engine.hop = 1 /\ call.factor = 2
  /\ Len(synthTrace) = 2
  /\ synthTrace[2].position = 2
  /\ IsNum(synthTrace[2].signal[1]) /\ synthTrace[2].signal[1].v # 0
  /\ result.data[3] = Add(synthArgs[1].output.data[3], synthTrace[2].signal[1])

\* the sum of the samples that the frames k, k + 1, ... have at output position p
\* (frame k covers the positions from (k - 1) * hopS to (k - 1) * hopS + size - 1)
RECURSIVE Contributions(_, _, _)
Contributions(p, k, hopS) ==
  IF k > Len(synthTrace) THEN Fix(0)
  ELSE IF p >= (k - 1) * hopS /\ p < (k - 1) * hopS + engine.size
  THEN Add(At(synthTrace[k].signal, p - (k - 1) * hopS), Contributions(p, k + 1, hopS))
  ELSE Contributions(p, k + 1, hopS)
\* C20: with hop * factor <= size, every position of the output synthesis
\* allocates holds the sum of the samples of all the frames that cover it,
\* frame i covering i * hop * factor up to i * hop * factor + size - 1.
C20_WholeFrameOverlapAdd ==
  (/\ Ran("synthesis") /\ err = "none" /\ ~synthArgs[1].output.given
   /\ engine.hop * call.factor <= engine.size) =>
    \A p \in 0..(Len(result.data) - 1) :
      result.data[p + 1] = Stored(Contributions(p, 1, engine.hop * call.factor))

\* C21: for every deviation deltaFreq, positive or negative, the wrapped
\* deviation ((deltaFreq + PI) mod 2 PI) - PI lies within [-PI, PI] and differs
\* from deltaFreq by an integer multiple of 2 PI.
C21_WrapInRange ==
  wrapOut # Undefined =>
    /\ IsNum(wrapOut)
    /\ wrapOut.v >= -PI.v /\ wrapOut.v <= PI.v
    /\ (wrapOut.v - wrapIn.v) % PI2.v = 0

\* C22: fftshift leaves in the buffer it was given the same elements, the one
\* of index i at index (i + floor(N / 2)) mod N (for even N the halves are
\* swapped); ifftshift moves index i to (i + floor((N + 1) / 2)) mod N; for
\* every length N, odd lengths, 0 and 1 included.
C22_ShiftMovesIndex ==
  /\ Len(buf) = Len(bufOrig)
  /\ shifts = <<"fftshift">> =>
       /\ \A i \in 0..(Len(buf) - 1) :
            buf[((i + Len(buf) \div 2) % Len(buf)) + 1] = bufOrig[i + 1]
       /\ Len(buf) % 2 = 0 =>
            buf = SubSeq(bufOrig, Len(buf) \div 2 + 1, Len(buf)) \o SubSeq(bufOrig, 1, Len(buf) \div 2)
  /\ shifts = <<"ifftshift">> =>
       \A i \in 0..(Len(buf) - 1) :
         buf[((i + (Len(buf) + 1) \div 2) % Len(buf)) + 1] = bufOrig[i + 1]
C22_Witness ==
  /\ shifts = <<"fftshift">>
  /\ bufOrig = Ramp(5)
  /\ buf = <<Fix(3), Fix(4), Fix(0), Fix(1), Fix(2)>>

\* the arrays of frame k, and the scratch arrays of analysis
FrameArrays(k) == {refs.frames[k].magnitudes, refs.frames[k].phases}
ScratchArrays == {refs.window, refs.frame, refs.real, refs.imag}
\* C23: every frame analysis returns has a magnitudes and a phases array of
\* its own, shared with no other frame and with no scratch buffer: producing
\* frame i + 1 leaves the frames 0..i as they were, and a write to a bin of
\* frame i leaves every frame j # i as it was.
C23_FramesOwnStorage ==
  /\ \A j \in 1..Len(refs.frames) :
       /\ refs.frames[j].magnitudes # refs.frames[j].phases
       /\ FrameArrays(j) \cap ScratchArrays = {}
       /\ \A k \in 1..Len(refs.frames) : k # j => FrameArrays(j) \cap FrameArrays(k) = {}
  /\ (Len(lastWrite) > 0 /\ lastWrite[1] = "frame") =>
       /\ Len(refs.frames) = Len(snapshot) + 1
       /\ \A k \in 1..Len(snapshot) : Deref(heap, refs.frames)[k] = snapshot[k]
  /\ (Len(lastWrite) > 0 /\ lastWrite[1] = "write") =>
       \A k \in 1..Len(snapshot) : k # lastWrite[2] => Deref(heap, refs.frames)[k] = snapshot[k]
  /\ (Len(lastWrite) > 0 /\ lastWrite[1] = "return") =>
       Deref(heap, refs.frames) =
         analysis(refs.signal, engine.size, engine.hop, engine.windowFn, engine.ft).frames
C23_Witness ==
  /\ Len(lastWrite) > 0 /\ lastWrite[1] = "write" /\ lastWrite[2] = 2
  /\ Len(refs.frames) = 3
  /\ engine.size = 2
  /\ Deref(heap, refs.frames)[2] # snapshot[2]
  /\ Deref(heap, refs.frames)[1] = snapshot[1]
  /\ Deref(heap, refs.frames)[3] = snapshot[3]

C25_ReadsInsideFrame ==
  (Ran("synthesis") /\ err = "none") =>
    \A k \in 1..Len(synthTrace) :
      \A j \in 1..Len(OutputAfter(k)) :
        (j > synthTrace[k].position /\ j <= synthTrace[k].position + engine.hop * call.factor) =>
          /\ j - synthTrace[k].position - 1 < engine.size
          /\ (/\ IsNum(synthTrace[k].before[j])
              /\ \A i \in 1..Len(synthTrace[k].signal) : IsNum(synthTrace[k].signal[i])) =>
               IsNum(OutputAfter(k)[j])

\* the phase lines 294-304 give one bin from the phase prev of the frame before
\* and the raw phase cur of the frame, with the options of the call
TrackedPhase(prev, cur, bin) ==
  RecalcBins(<<prev>>, <<cur>>, 0, 1,
             OriginalHopTime(FullRecalcOptions(engine.size, call.factor, engine.hop, engine.sampleRate)),
             ModifiedHopTime(FullRecalcOptions(engine.size, call.factor, engine.hop, engine.sampleRate)),
             <<engine.omega[bin]>>)[1]
\* recalcPhases was the last call made, so that call.factor is its factor
TrackerReturned == stages # <<>> /\ stages[Len(stages)] = "recalcPhases"
\* C26: recalcPhases recomputes the frames in increasing order and in place:
\* the phase of bin b of frame i comes from the raw phase of that bin of
\* frame i and, for i >= 3, the already recomputed phase of that bin of frame
\* i - 1, for i = 2 the raw phase of frame 1; so it depends only on the raw
\* phases of the frames 1..i of the same bin.
C26_TrackerIsRecursive ==
  TrackerReturned =>
    \A n \in 3..Len(frames) : \A b \in 1..engine.size :
      frames[n].phases[b] =
        TrackedPhase(IF n = 3 THEN tracked[2].phases[b] ELSE frames[n - 1].phases[b],
                     tracked[n].phases[b], b)
C26_Witness ==
  /\ TrackerReturned
  /\ Len(frames) >= 4
  /\ \E b \in 1..engine.size :
       /\ IsNum(frames[4].phases[b])
       /\ frames[3].phases[b] # tracked[3].phases[b]
       /\ frames[4].phases[b] # TrackedPhase(tracked[3].phases[b], tracked[4].phases[b], b)

\* the sample the synthesis call at hand reads for output index j (from 1):
\* the iteration whose segment holds j, and its offset in the frame signal
SegmentOf(j) == ((j - 1) \div (engine.hop * call.factor)) + 1
SampleFor(j) ==
  At(FrameSignal(synthArgs[1].frames.items[SegmentOf(j)]),
     j - 1 - (SegmentOf(j) - 1) * engine.hop * call.factor)
\* C27: synthesis given an output buffer returns that buffer, with its length,
\* neither cleared nor resized: each index inside a segment ends with its prior
\* content plus the sample added there, every other index keeps its content,
\* segments past the end of the buffer are dropped without error, and a second
\* call into the returned, un-cleared buffer adds to what the first call left.
C27_SuppliedOutputAccumulates ==
  (/\ stages # <<>> /\ stages[Len(stages)] = "synthesis"
   /\ synthArgs[1].frames.present /\ Len(synthArgs[1].frames.items) > 0
   /\ synthArgs[1].output.given) =>
    /\ err = "none"
    /\ result.given
    /\ ~synthesis(synthArgs[1].frames, engine.ft, engine.size, engine.hop, call.factor,
                  synthArgs[1].output).allocated
    /\ Len(result.data) = Len(synthArgs[1].output.data)
    /\ Len(synthTrace) = Len(synthArgs[1].frames.items)
    /\ \A j \in 1..Len(result.data) :
         result.data[j] =
           (IF SegmentOf(j) <= Len(synthArgs[1].frames.items)
            THEN Stored(Add(synthArgs[1].output.data[j], SampleFor(j)))
            ELSE synthArgs[1].output.data[j])
    /\ firstSynth.made =>
         /\ synthArgs[1].output = firstSynth.result
         /\ Len(result.data) = Len(firstSynth.output.data)
         /\ firstSynth.factor = call.factor =>
              \A j \in 1..Len(result.data) :
                result.data[j] =
                  (IF SegmentOf(j) <= Len(synthArgs[1].frames.items)
                   THEN Stored(Add(Add(firstSynth.output.data[j], SampleFor(j)), SampleFor(j)))
                   ELSE firstSynth.output.data[j])
C27_Witness ==
  /\ stages # <<>> /\ stages[Len(stages)] = "synthesis"
  /\ err = "none"
  /\ firstSynth.made /\ firstSynth.factor = call.factor
  /\ Len(result.data) = 3
  /\ Len(synthArgs[1].frames.items) * engine.hop * call.factor > 3
  /\ \E j \in 1..3 :
       /\ IsNum(result.data[j])
       /\ result.data[j] # firstSynth.result.data[j]
       /\ firstSynth.result.data[j] # firstSynth.output.data[j]
       /\ result.data[j].v - firstSynth.result.data[j].v
            = firstSynth.result.data[j].v - firstSynth.output.data[j].v

\* the number of bits of the indices of a table of the given size
RECURSIVE Log2(_)
Log2(size) == IF size <= 1 THEN 0 ELSE 1 + Log2(size \div 2)
\* i with its lowest bits in reverse order
RECURSIVE BitReverse(_, _)
BitReverse(i, bits) ==
  IF bits = 0 THEN 0 ELSE (i % 2) * 2^(bits - 1) + BitReverse(i \div 2, bits - 1)
\* the tables with every sine and cosine entry spoilt except those of the
\* indices 1, 2, 4, ..., size / 2
OnlyStageEntries(table) ==
  [i \in 1..Len(table) |-> IF IsPowerOfTwo(i - 1) THEN table[i] ELSE NaN]
StageTables(tb) ==
  [tb EXCEPT !.sinTable = OnlyStageEntries(tb.sinTable), !.cosTable = OnlyStageEntries(tb.cosTable)]
\* C28: the bit-reversal table of a transform of a power-of-two size is a
\* permutation of 0..size-1 whose entry i is i with its log2(size) bits
\* reversed (its own inverse, entry 0 is 0), and a transform reads the sine
\* and cosine tables only at the indices 1, 2, 4, ..., size / 2, never at
\* index 0: with every other entry spoilt it returns the same result.
C28_BitReversalTable ==
  ft.threw = "none" =>
    /\ Len(ft.reverseTable) = ft.size
    /\ {ft.reverseTable[i] : i \in 1..ft.size} = 0..(ft.size - 1)
    /\ \A i \in 0..(ft.size - 1) :
         /\ ft.reverseTable[i + 1] = BitReverse(i, Log2(ft.size))
         /\ ft.reverseTable[ft.reverseTable[i + 1] + 1] = i
    /\ ft.reverseTable[1] = 0
    /\ ~IsNum(ft.sinTable[1]) /\ ~IsNum(ft.cosTable[1])
    /\ fftCall.op # "none" =>
         fftCall.result = process(FftDir, StageTables(ft), fftCall.input, fftCall.output)
C28_Witness ==
  /\ ft.threw = "none"
  /\ ft.size = 4
  /\ ft.reverseTable = <<0, 2, 1, 3>>
  /\ fftCall.op = "forward"
  /\ fftCall.result.threw = "none"
  /\ \A i \in 1..4 : IsNum(fftCall.result.real[i]) /\ IsNum(fftCall.result.imag[i])
  /\ \E i \in 1..4 : fftCall.result.imag[i].v # 0
  /\ StageTables(ft) # ft

=============================================================================
